---- MODULE Spec2Model ----
(***************************************************************************)
(* edx_rbac/utils.py: the two access evaluators (JWT claims, database),   *)
(* the extraction of feature roles from a decoded JWT, and the creation   *)
(* of the role auth claim that is embedded into a JWT.                     *)
(*                                                                         *)
(* A Python str is a sequence of one-character strings, so that            *)
(* str.partition and str.format are computed character by character.      *)
(* A Python value is a record tagged with its type; a call ends in a       *)
(* record [exc, value]: exc = "" for a normal return, the exception's     *)
(* name otherwise.                                                         *)
(***************************************************************************)
EXTENDS Integers, Sequences, FiniteSets, TLC

VARIABLES
    api,               \* the entry point this run's caller uses: "jwt", "db" or "claim"
    settings,          \* django.conf.settings
    token,             \* the decoded JWT handed to the claims path
    store,             \* the rows of the role assignment class (role_assignment_class.objects)
    jwt_call,          \* last call of request_user_has_implicit_access_via_jwt
    extracted,         \* last call of feature_roles_from_jwt
    db_call,           \* last call of user_has_access_via_database
    pc,                \* create_role_auth_claim_for_user: position
    loc_idx,           \* create_role_auth_claim_for_user: index of system_role_loc
    role_func,         \* create_role_auth_claim_for_user: what role_func was resolved to
    role_auth_claim,   \* create_role_auth_claim_for_user: the list being built
    yielded,           \* what the role sources have yielded so far, in order
    build_call         \* outcome of create_role_auth_claim_for_user

vars == <<api, settings, token, store, jwt_call, extracted, db_call,
          pc, loc_idx, role_func, role_auth_claim, yielded, build_call>>

----------------------------------------------------------------------------
(* Bounds *)

MaxRoles == 2
MaxAssignments == 2
MaxPairs == 2

----------------------------------------------------------------------------
(* Python values *)

ALL_ACCESS_CONTEXT == <<"*">>

None == [type |-> "NoneType", str |-> <<>>, items |-> <<>>]
Str(s) == [type |-> "str", str |-> s, items |-> <<>>]
List(xs) == [type |-> "list", str |-> <<>>, items |-> xs]
Dict(keys, roles) == [type |-> "dict", keys |-> keys, roles |-> roles]
NoneToken == [type |-> "NoneType", keys |-> {}, roles |-> None]

\* bool(v): None, '' and [] are falsy
truthy(v) ==
    CASE v.type = "NoneType" -> FALSE
      [] v.type = "str" -> v.str # <<>>
      [] v.type = "list" -> v.items # <<>>
      [] v.type = "dict" -> v.keys # {}

Return(v) == [exc |-> "", value |-> v]
Raise(e) == [exc |-> e, value |-> None]
NoCall == [exc |-> "not called", value |-> None]

Range(s) == {s[i] : i \in 1..Len(s)}

\* x in list
In(x, list) == \E i \in 1..Len(list) : list[i] = x

----------------------------------------------------------------------------
(* Names and inputs *)

Admin == <<"a">>
Manager == <<"m">>
Unmapped == <<"u">>
Colon == <<"a", ":", "m">>

CouponManagement == "coupon-management"
DataApiAccess == "data_api_access"
FeatureRoleNames == {CouponManagement, DataApiAccess}

\* settings.SYSTEM_TO_FEATURE_ROLE_MAPPING candidates
Mappings ==
    { (Admin :> <<CouponManagement, DataApiAccess>>) @@ (Manager :> <<CouponManagement>>),
      (Admin :> <<CouponManagement, CouponManagement>>) @@ (Manager :> <<>>),
      (Admin :> <<DataApiAccess>>) @@ (Manager :> <<DataApiAccess, CouponManagement>>) }

\* a role source locator: what importlib.import_module + getattr and
\* apps.get_model do for it
Locator(i, g) == [import |-> i, get_model |-> g]
Function == Locator("ok", "LookupError")
ModelNoModule == Locator("ImportError", "ok")
ModelNoAttr == Locator("AttributeError", "ok")
Both == Locator("ok", "ok")
Neither == Locator("ImportError", "LookupError")
NeitherAttr == Locator("AttributeError", "LookupError")

\* settings.SYSTEM_WIDE_ROLE_CLASSES candidates
RoleClasses ==
    { <<>>, <<Function>>, <<ModelNoModule, Function>>, <<ModelNoAttr, Both>>,
      <<Function, Neither, Function>>, <<NeitherAttr>> }

\* contexts a token entry carries after the role name
EntryContexts == { <<"x">>, <<"*">>, <<"x", ":", "y">> }
EntryNames == {Admin, Manager, Unmapped}
RoleEntries ==
    EntryNames \cup {n \o <<":">> \o c : n \in EntryNames, c \in EntryContexts}

\* the context argument of the evaluators
RequestContexts ==
    {None, Str(<<>>), Str(<<"x">>), Str(<<"y">>), Str(ALL_ACCESS_CONTEXT),
     Str(<<"x", ":", "y">>)}

User(name, anon) == [name |-> name, is_anonymous |-> anon]
Users == {User("alice", "False"), User("anon", "True"), User("svc", "missing")}

NoJwtCall == [role_name |-> "", context |-> None, ret |-> NoCall]
NoDbCall == [user |-> User("", "missing"), role_name |-> "", context |-> None,
             ret |-> NoCall]

\* what assignment.get_context() returns
StoredContexts ==
    {Str(<<"x">>), Str(ALL_ACCESS_CONTEXT), List(<<<<"x">>, <<"y">>>>), None}
Assignment(u, r, c) == [user |-> u, role |-> r, context |-> c]
Assignments ==
    {Assignment(u, r, c) : u \in {"alice", "anon", "svc"}, r \in FeatureRoleNames,
                           c \in StoredContexts}

\* what a role source yields
YieldedContexts ==
    {None, Str(<<>>), Str(<<"x", ":", "y">>), List(<<>>), List(<<<<"x">>, <<"*">>>>),
     List(<<<<>>, <<"x">>>>)}
YieldedPairs ==
    ({Admin} \X YieldedContexts)
    \cup ({Manager} \X {None, Str(<<"x", ":", "y">>), List(<<<<"x">>, <<"*">>>>)})
    \cup ({Colon} \X {None, Str(<<"x", ":", "y">>)})

----------------------------------------------------------------------------
(* feature_roles_from_jwt *)

IndexOf(s, ch) ==
    IF \E i \in 1..Len(s) : s[i] = ch
    THEN CHOOSE i \in 1..Len(s) : s[i] = ch /\ \A j \in 1..(i - 1) : s[j] # ch
    ELSE 0

LastIndexOf(s, ch) ==
    IF \E i \in 1..Len(s) : s[i] = ch
    THEN CHOOSE i \in 1..Len(s) : s[i] = ch /\ \A j \in (i + 1)..Len(s) : s[j] # ch
    ELSE 0

\* str.rpartition(sep): the split at the last separator
rpartition(s, sep) ==
    LET i == LastIndexOf(s, sep)
    IN  IF i = 0 THEN <<s, <<>>, <<>>>>
        ELSE <<SubSeq(s, 1, i - 1), <<sep>>, SubSeq(s, i + 1, Len(s))>>

\* str.partition(sep) for a one-character sep: <<head, sep, tail>>
partition(s, sep) ==
    LET i == IndexOf(s, sep)
    IN  IF i = 0 THEN <<s, <<>>, <<>>>>
        ELSE <<SubSeq(s, 1, i - 1), <<sep>>, SubSeq(s, i + 1, Len(s))>>

\* dict.get(key, [])
mapping_get(mapping, key) == IF key \in DOMAIN mapping THEN mapping[key] ELSE <<>>

\* feature_roles[role] = [context_in_jwt] in place of the append
RECURSIVE assign_mapped(_, _, _)
assign_mapped(feature_roles, mapped_roles, context_in_jwt) ==
    IF mapped_roles = <<>> THEN feature_roles
    ELSE LET role == Head(mapped_roles)
             new == [r \in DOMAIN feature_roles \cup {role} |->
                        IF r = role THEN <<context_in_jwt>> ELSE feature_roles[r]]
         IN  assign_mapped(new, Tail(mapped_roles), context_in_jwt)

\* for role in mapped_roles: feature_roles[role].append(context_in_jwt)
RECURSIVE append_mapped(_, _, _)
append_mapped(feature_roles, mapped_roles, context_in_jwt) ==
    IF mapped_roles = <<>> THEN feature_roles
    ELSE LET role == Head(mapped_roles)
             old == IF role \in DOMAIN feature_roles THEN feature_roles[role] ELSE <<>>
             new == [r \in DOMAIN feature_roles \cup {role} |->
                        IF r = role THEN Append(old, context_in_jwt) ELSE feature_roles[r]]
         IN  append_mapped(new, Tail(mapped_roles), context_in_jwt)

\* for role_data in jwt_roles_claim: ...
RECURSIVE extract_loop(_, _)
extract_loop(feature_roles, jwt_roles_claim) ==
    IF jwt_roles_claim = <<>> THEN feature_roles
    ELSE LET p == partition(Head(jwt_roles_claim), ":")
             mapped_roles == mapping_get(settings.SYSTEM_TO_FEATURE_ROLE_MAPPING, p[1])
         IN  extract_loop(append_mapped(feature_roles, mapped_roles, p[3]),
                          Tail(jwt_roles_claim))

\* decoded_jwt['roles'] in place of decoded_jwt.get('roles', [])
feature_roles_from_jwt_getitem(decoded_jwt) ==
    IF "roles" \notin decoded_jwt.keys THEN Raise("KeyError")
    ELSE IF decoded_jwt.roles.type # "list" THEN Raise("TypeError")
    ELSE Return(extract_loop(<<>>, decoded_jwt.roles.items))

feature_roles_from_jwt(decoded_jwt) ==
    LET jwt_roles_claim == IF "roles" \in decoded_jwt.keys THEN decoded_jwt.roles
                           ELSE List(<<>>)
    IN  IF jwt_roles_claim.type # "list" THEN Raise("TypeError")
        ELSE Return(extract_loop(<<>>, jwt_roles_claim.items))

----------------------------------------------------------------------------
(* request_user_has_implicit_access_via_jwt *)

\* the evaluator with the ALL_ACCESS_CONTEXT test left out
jwt_access_without_wildcard(decoded_jwt, role_name, context) ==
    IF ~truthy(decoded_jwt) THEN Return(FALSE)
    ELSE LET feature_roles == feature_roles_from_jwt(decoded_jwt)
         IN  IF feature_roles.exc # "" THEN feature_roles
             ELSE IF role_name \in DOMAIN feature_roles.value
                  THEN IF ~truthy(context) THEN Return(TRUE)
                       ELSE Return(In(context.str, feature_roles.value[role_name]))
                  ELSE Return(FALSE)

request_user_has_implicit_access_via_jwt(decoded_jwt, role_name, context) ==
    IF ~truthy(decoded_jwt) THEN Return(FALSE)
    ELSE LET feature_roles == feature_roles_from_jwt(decoded_jwt)
         IN  IF feature_roles.exc # "" THEN feature_roles
             ELSE IF role_name \in DOMAIN feature_roles.value
                  THEN IF ~truthy(context) THEN Return(TRUE)
                       ELSE Return(In(context.str, feature_roles.value[role_name])
                                   \/ In(ALL_ACCESS_CONTEXT, feature_roles.value[role_name]))
                  ELSE Return(FALSE)

----------------------------------------------------------------------------
(* user_has_access_via_database *)

\* the anonymous test left out
is_anonymous_unchecked(user) == FALSE

\* getattr(user, 'is_anonymous', False)
is_anonymous(user) == user.is_anonymous = "True"

\* role_assignment_class.objects.filter(user=user, role__name=role_name)
filter(objects, user, role_name) ==
    {a \in objects : a.user = user.name /\ a.role = role_name}

\* the loop with the branch for a collection of contexts left out
contexts_of_strings_only(role_assignments) ==
    { a.context.str : a \in {b \in role_assignments : b.context.type = "str"} }

\* the loop over role_assignments that fills assigned_contexts
contexts_of(role_assignments) ==
    UNION { IF a.context.type = "str" THEN {a.context.str} ELSE Range(a.context.items)
            : a \in role_assignments }

\* the evaluator with the ALL_ACCESS_CONTEXT test left out
db_access_without_wildcard(user, role_name, role_assignment_class, context) ==
    IF is_anonymous(user) THEN Return(FALSE)
    ELSE LET role_assignments == filter(role_assignment_class, user, role_name)
         IN  IF role_assignments = {} THEN Return(FALSE)
             ELSE IF ~truthy(context) THEN Return(TRUE)
             ELSE IF \E a \in role_assignments : a.context.type = "NoneType"
                  THEN Raise("TypeError")
             ELSE Return(context.str \in contexts_of(role_assignments))

user_has_access_via_database(user, role_name, role_assignment_class, context) ==
    IF is_anonymous(user) THEN Return(FALSE)
    ELSE LET role_assignments == filter(role_assignment_class, user, role_name)
         IN  IF role_assignments = {} THEN Return(FALSE)
             ELSE IF ~truthy(context) THEN Return(TRUE)
             ELSE IF \E a \in role_assignments : a.context.type = "NoneType"
                  THEN Raise("TypeError")
             ELSE LET assigned_contexts == contexts_of(role_assignments)
                  IN  Return(context.str \in assigned_contexts
                             \/ ALL_ACCESS_CONTEXT \in assigned_contexts)

----------------------------------------------------------------------------
(* create_role_auth_claim_for_user *)

\* the arguments of format in the wrong order
format_swapped(role_string, context) == context \o <<":">> \o role_string

\* '{}:{}'.format(role_string, context)
format(role_string, context) == role_string \o <<":">> \o context

append_role_auth_claim(claim, role_string, context) ==
    IF truthy(context) THEN Append(claim, format(role_string, context.str))
    ELSE Append(claim, role_string)

\* for item in context: append_role_auth_claim(role_string, item)
RECURSIVE append_items(_, _, _)
append_items(claim, role_string, items) ==
    IF items = <<>> THEN claim
    ELSE append_items(append_role_auth_claim(claim, role_string, Str(Head(items))),
                      role_string, Tail(items))

\* the loop body without the isinstance test: a string is iterated character by character
append_pair_iterating_strings(claim, role_string, context) ==
    IF truthy(context)
    THEN append_items(claim, role_string,
                      IF context.type = "str"
                      THEN [i \in 1..Len(context.str) |-> <<context.str[i]>>]
                      ELSE context.items)
    ELSE append_role_auth_claim(claim, role_string, None)

\* the body of the loop over role_func(user)
append_pair(claim, role_string, context) ==
    IF truthy(context)
    THEN IF context.type = "str" THEN append_role_auth_claim(claim, role_string, context)
         ELSE append_items(claim, role_string, context.items)
    ELSE append_role_auth_claim(claim, role_string, None)

\* the two resolutions tried in the other order
resolve_model_first(system_role_loc) ==
    IF system_role_loc.get_model = "ok" THEN Return("get_assignments")
    ELSE IF system_role_loc.import = "ok" THEN Return("function")
    ELSE Raise("LookupError")

\* try import_module + getattr, except (ImportError, AttributeError): get_model
resolve(system_role_loc) ==
    IF system_role_loc.import = "ok" THEN Return("function")
    ELSE IF system_role_loc.get_model = "ok" THEN Return("get_assignments")
    ELSE Raise("LookupError")

----------------------------------------------------------------------------
(* State machine *)

Init ==
    /\ api \in {"jwt", "db", "claim"}
    /\ settings \in [SYSTEM_TO_FEATURE_ROLE_MAPPING : Mappings,
                     SYSTEM_WIDE_ROLE_CLASSES : RoleClasses]
    /\ api # "claim" => settings.SYSTEM_WIDE_ROLE_CLASSES = <<>>
    /\ token \in {NoneToken, Dict({}, None), Dict({"sub"}, None), Dict({"roles"}, None),
                  Dict({"roles"}, List(<<>>))}
    /\ api # "jwt" => token = NoneToken
    /\ store = {}
    /\ jwt_call = NoJwtCall
    /\ extracted = NoCall
    /\ db_call = NoDbCall
    /\ pc = "loop"
    /\ loc_idx = 0
    /\ role_func = ""
    /\ role_auth_claim = <<>>
    /\ yielded = <<>>
    /\ build_call = NoCall

\* the issuer puts one more entry into the token's roles
AddRoleEntry(entry) ==
    /\ api = "jwt"
    /\ "roles" \in token.keys
    /\ token.roles.type = "list"
    /\ Len(token.roles.items) < MaxRoles
    /\ token' = [token EXCEPT !.roles = List(Append(token.roles.items, entry))]
    /\ jwt_call' = NoJwtCall
    /\ extracted' = NoCall
    /\ UNCHANGED <<api, settings, store, db_call, pc, loc_idx, role_func,
                   role_auth_claim, yielded, build_call>>

CallFeatureRoles ==
    /\ api = "jwt"
    /\ token.type = "dict"
    /\ extracted' = feature_roles_from_jwt(token)
    /\ UNCHANGED <<api, settings, token, store, jwt_call, db_call, pc, loc_idx,
                   role_func, role_auth_claim, yielded, build_call>>

CallJwt(role_name, context) ==
    /\ api = "jwt"
    /\ jwt_call' = [role_name |-> role_name, context |-> context,
                    ret |-> request_user_has_implicit_access_via_jwt(token, role_name, context)]
    /\ UNCHANGED <<api, settings, token, store, extracted, db_call, pc, loc_idx,
                   role_func, role_auth_claim, yielded, build_call>>

\* an administrative flow creates a role assignment
AddAssignment(a) ==
    /\ api = "db"
    /\ a \notin store
    /\ Cardinality(store) < MaxAssignments
    /\ store' = store \cup {a}
    /\ db_call' = NoDbCall
    /\ UNCHANGED <<api, settings, token, jwt_call, extracted, pc, loc_idx, role_func,
                   role_auth_claim, yielded, build_call>>

CallDb(user, role_name, context) ==
    /\ api = "db"
    /\ db_call' = [user |-> user, role_name |-> role_name, context |-> context,
                   ret |-> user_has_access_via_database(user, role_name, store, context)]
    /\ UNCHANGED <<api, settings, token, store, jwt_call, extracted, pc, loc_idx,
                   role_func, role_auth_claim, yielded, build_call>>

\* for system_role_loc in settings.SYSTEM_WIDE_ROLE_CLASSES: resolve role_func
NextLocator ==
    /\ api = "claim"
    /\ pc = "loop"
    /\ loc_idx < Len(settings.SYSTEM_WIDE_ROLE_CLASSES)
    /\ LET r == resolve(settings.SYSTEM_WIDE_ROLE_CLASSES[loc_idx + 1])
       IN  IF r.exc = ""
           THEN /\ pc' = "iterate"
                /\ role_func' = r.value
                /\ build_call' = build_call
           ELSE /\ pc' = "raised"
                /\ role_func' = ""
                /\ build_call' = r
    /\ loc_idx' = loc_idx + 1
    /\ UNCHANGED <<api, settings, token, store, jwt_call, extracted, db_call,
                   role_auth_claim, yielded>>

\* role_func(user) yields one more (role_string, context)
YieldPair(role_string, context) ==
    /\ api = "claim"
    /\ pc = "iterate"
    /\ Len(yielded) < MaxPairs
    /\ role_auth_claim' = append_pair(role_auth_claim, role_string, context)
    /\ yielded' = Append(yielded, [loc |-> loc_idx, source |-> role_func,
                                   role_string |-> role_string, context |-> context])
    /\ UNCHANGED <<api, settings, token, store, jwt_call, extracted, db_call, pc,
                   loc_idx, role_func, build_call>>

\* role_func(user) is exhausted
Exhausted ==
    /\ api = "claim"
    /\ pc = "iterate"
    /\ pc' = "loop"
    /\ UNCHANGED <<api, settings, token, store, jwt_call, extracted, db_call, loc_idx,
                   role_func, role_auth_claim, yielded, build_call>>

\* return role_auth_claim
ReturnClaim ==
    /\ api = "claim"
    /\ pc = "loop"
    /\ loc_idx = Len(settings.SYSTEM_WIDE_ROLE_CLASSES)
    /\ pc' = "returned"
    /\ build_call' = Return(role_auth_claim)
    /\ UNCHANGED <<api, settings, token, store, jwt_call, extracted, db_call, loc_idx,
                   role_func, role_auth_claim, yielded>>

\* the returned list is embedded as the roles of a token, which is then decoded
EmbedClaim ==
    /\ api = "claim"
    /\ pc = "returned"
    /\ token = NoneToken
    /\ token' = Dict({"roles"}, List(build_call.value))
    /\ extracted' = feature_roles_from_jwt(token')
    /\ UNCHANGED <<api, settings, store, jwt_call, db_call, pc, loc_idx, role_func,
                   role_auth_claim, yielded, build_call>>

Next ==
    \/ \E entry \in RoleEntries : AddRoleEntry(entry)
    \/ CallFeatureRoles
    \/ \E role_name \in FeatureRoleNames, context \in RequestContexts :
          CallJwt(role_name, context)
    \/ \E a \in Assignments : AddAssignment(a)
    \/ \E user \in Users, role_name \in FeatureRoleNames, context \in RequestContexts :
          CallDb(user, role_name, context)
    \/ NextLocator
    \/ \E pair \in YieldedPairs : YieldPair(pair[1], pair[2])
    \/ Exhausted
    \/ ReturnClaim
    \/ EmbedClaim

Spec == Init /\ [][Next]_vars

----------------------------------------------------------------------------
(* Claims-path evaluation *)

JwtCalled == jwt_call.ret.exc # "not called"
Granted(call) == call.ret.exc = "" /\ call.ret.value = TRUE
Denied(call) == call.ret.exc = "" /\ call.ret.value = FALSE

\* a non-empty token whose roles entry, when present, is a list
WellFormedToken == truthy(token) /\ ("roles" \in token.keys => token.roles.type = "list")

\* the map extracted from the token
TokenMap == feature_roles_from_jwt(token).value

\* C1 as stated: for a non-empty token, a role that is no key of the extracted
\* map is denied for every context; a role that is a key is granted when no
\* context is requested (None), granted for each of its contexts, granted for
\* every context when '*' is among them, and denied for every requested
\* context, the empty string included, that is neither among them nor '*'.
C1_AsStated ==
    (JwtCalled /\ WellFormedToken) =>
        LET R == jwt_call.role_name
            c == jwt_call.context
        IN  /\ R \notin DOMAIN TokenMap => Denied(jwt_call)
            /\ R \in DOMAIN TokenMap =>
                 /\ c = None => Granted(jwt_call)
                 /\ (c.type = "str" /\ In(c.str, TokenMap[R])) => Granted(jwt_call)
                 /\ In(ALL_ACCESS_CONTEXT, TokenMap[R]) => Granted(jwt_call)
                 /\ ( /\ c.type = "str"
                      /\ ~In(c.str, TokenMap[R])
                      /\ c.str # ALL_ACCESS_CONTEXT
                      /\ ~In(ALL_ACCESS_CONTEXT, TokenMap[R]) ) => Denied(jwt_call)

\* C1 as amended: the same, with the empty string treated as no context
\* requested: a role that is a key is granted when the requested context is
\* None or empty, and denied for every non-empty requested context that is
\* not among its contexts when '*' is not among them either.
C1_ClaimsPathEvaluation ==
    (JwtCalled /\ WellFormedToken) =>
        LET R == jwt_call.role_name
            c == jwt_call.context
        IN  /\ R \notin DOMAIN TokenMap => Denied(jwt_call)
            /\ R \in DOMAIN TokenMap =>
                 /\ (c = None \/ c = Str(<<>>)) => Granted(jwt_call)
                 /\ (c.type = "str" /\ In(c.str, TokenMap[R])) => Granted(jwt_call)
                 /\ In(ALL_ACCESS_CONTEXT, TokenMap[R]) => Granted(jwt_call)
                 /\ ( /\ c.type = "str"
                      /\ c.str # <<>>
                      /\ ~In(c.str, TokenMap[R])
                      /\ ~In(ALL_ACCESS_CONTEXT, TokenMap[R]) ) => Denied(jwt_call)

\* a role with contexts and no wildcard was asked for a context it does not have
C1_Witness ==
    /\ JwtCalled /\ WellFormedToken
    /\ jwt_call.role_name \in DOMAIN TokenMap
    /\ In(<<"x">>, TokenMap[jwt_call.role_name])
    /\ jwt_call.context = Str(<<"y">>)
    /\ Denied(jwt_call)

----------------------------------------------------------------------------
(* Persistence-path evaluation *)

DbCalled == db_call.ret.exc # "not called"

\* the assignments of the store that match the call's user and role
Matching == {a \in store : a.user = db_call.user.name /\ a.role = db_call.role_name}

\* the union of their contexts: a string is one element, a collection gives all its elements
MatchingContexts ==
    {s \in {<<"x">>, <<"y">>, <<"*">>, <<>>, <<"x", ":", "y">>} :
        \E a \in Matching :
            \/ a.context.type = "str" /\ a.context.str = s
            \/ a.context.type = "list" /\ \E i \in 1..Len(a.context.items) : a.context.items[i] = s}

NonAnonymous(user) == user.is_anonymous # "True"

\* the contexts of one assignment: a string is one element, a collection gives its elements
AdvertisedRow(a) ==
    IF a.context.type = "str" THEN {a.context.str}
    ELSE {a.context.items[i] : i \in 1..Len(a.context.items)}
StringOrCollection(rows) == \A a \in rows : a.context.type \in {"str", "list"}

\* C2 as stated: for a non-anonymous user, no matching assignment is denied;
\* a matching assignment and no context requested (None) is granted; any
\* requested context, the empty string included, is granted iff it or '*' is
\* in the union of the matching assignments' contexts.
C2_AsStated ==
    (DbCalled /\ NonAnonymous(db_call.user) /\ StringOrCollection(Matching)) =>
        LET c == db_call.context
        IN  /\ Matching = {} => Denied(db_call)
            /\ (Matching # {} /\ c = None) => Granted(db_call)
            /\ (Matching # {} /\ c # None) =>
                 /\ db_call.ret.exc = ""
                 /\ db_call.ret.value
                      = (c.str \in MatchingContexts \/ ALL_ACCESS_CONTEXT \in MatchingContexts)

\* C2 as amended: the same, with the empty string treated as no context
\* requested: a matching assignment is granted when the requested context is
\* None or empty, and a non-empty requested context is granted iff it or '*'
\* is in the union of the matching assignments' contexts.
C2_PersistencePathEvaluation ==
    (DbCalled /\ NonAnonymous(db_call.user) /\ StringOrCollection(Matching)) =>
        LET c == db_call.context
        IN  /\ Matching = {} => Denied(db_call)
            /\ (Matching # {} /\ (c = None \/ c = Str(<<>>))) => Granted(db_call)
            /\ (Matching # {} /\ c # None /\ c # Str(<<>>)) =>
                 /\ db_call.ret.exc = ""
                 /\ db_call.ret.value
                      = (c.str \in MatchingContexts \/ ALL_ACCESS_CONTEXT \in MatchingContexts)

\* one assignment holding a collection of contexts granted one of its elements
C2_Witness ==
    /\ DbCalled /\ NonAnonymous(db_call.user)
    /\ Matching = {Assignment(db_call.user.name, db_call.role_name,
                              List(<<<<"x">>, <<"y">>>>))}
    /\ db_call.context = Str(<<"y">>)
    /\ Granted(db_call)

\* C3: an anonymous user is denied for every role and context, whatever
\* assignments the store holds for that user and whether or not a context is
\* requested.
C3_AnonymousDenied ==
    (DbCalled /\ db_call.user.is_anonymous = "True") => Denied(db_call)

\* an anonymous user with a wildcard assignment for the role was denied
C3_Witness ==
    /\ DbCalled
    /\ db_call.user.is_anonymous = "True"
    /\ Assignment(db_call.user.name, db_call.role_name, Str(ALL_ACCESS_CONTEXT)) \in store
    /\ Denied(db_call)

----------------------------------------------------------------------------
(* Absence *)

\* C4: absence never raises and resolves to denied. Claims path: an empty or
\* null token, a non-empty token without a roles entry, a role that is no key
\* of the extracted map, and a requested context that the role's contexts do
\* not hold (nor '*') are each denied by a normal return. Persistence path: no
\* matching assignment, and a requested context that the matching assignments
\* do not hold (nor '*'), are each denied by a normal return.
C4_AbsenceIsDenied ==
    /\ JwtCalled =>
         /\ ~truthy(token) => Denied(jwt_call)
         /\ (truthy(token) /\ "roles" \notin token.keys) => Denied(jwt_call)
         /\ (WellFormedToken /\ jwt_call.role_name \notin DOMAIN TokenMap) => Denied(jwt_call)
         /\ ( /\ WellFormedToken
              /\ jwt_call.role_name \in DOMAIN TokenMap
              /\ truthy(jwt_call.context)
              /\ ~In(jwt_call.context.str, TokenMap[jwt_call.role_name])
              /\ ~In(ALL_ACCESS_CONTEXT, TokenMap[jwt_call.role_name]) ) => Denied(jwt_call)
    /\ DbCalled =>
         /\ Matching = {} => Denied(db_call)
         /\ ( /\ StringOrCollection(Matching)
              /\ truthy(db_call.context)
              /\ db_call.context.str \notin MatchingContexts
              /\ ALL_ACCESS_CONTEXT \notin MatchingContexts ) => Denied(db_call)

\* a non-empty token without a roles entry was evaluated and denied
C4_Witness ==
    /\ JwtCalled
    /\ token = Dict({"sub"}, None)
    /\ jwt_call.context = Str(<<"x">>)
    /\ Denied(jwt_call)

----------------------------------------------------------------------------
(* Claim Role Extractor *)

ExtractCalled == extracted.exc # "not called"

\* the part of an entry before its first colon, and the part after it
EntryName(e) ==
    LET k == CHOOSE k \in 0..Len(e) :
                 /\ \A j \in 1..k : e[j] # ":"
                 /\ (k = Len(e) \/ e[k + 1] = ":")
    IN  SubSeq(e, 1, k)
EntryContext(e) ==
    IF Len(EntryName(e)) = Len(e) THEN <<>>
    ELSE SubSeq(e, Len(EntryName(e)) + 2, Len(e))

\* the feature roles configured for a name
Configured(name) ==
    IF name \in DOMAIN settings.SYSTEM_TO_FEATURE_ROLE_MAPPING
    THEN settings.SYSTEM_TO_FEATURE_ROLE_MAPPING[name] ELSE <<>>
Occurrences(F, list) == Cardinality({i \in 1..Len(list) : list[i] = F})
Repeat(x, n) == [i \in 1..n |-> x]

\* in token order, the context of each entry whose name maps to F, once per entry
RECURSIVE ContextsOncePerEntry(_, _)
ContextsOncePerEntry(F, entries) ==
    IF entries = <<>> THEN <<>>
    ELSE (IF Occurrences(F, Configured(EntryName(Head(entries)))) > 0
          THEN <<EntryContext(Head(entries))>> ELSE <<>>)
         \o ContextsOncePerEntry(F, Tail(entries))

\* the same, once per occurrence of F in the list configured for the entry's name
RECURSIVE ContextsPerOccurrence(_, _)
ContextsPerOccurrence(F, entries) ==
    IF entries = <<>> THEN <<>>
    ELSE Repeat(EntryContext(Head(entries)),
                Occurrences(F, Configured(EntryName(Head(entries)))))
         \o ContextsPerOccurrence(F, Tail(entries))

TokenEntries == IF "roles" \in token.keys THEN token.roles.items ELSE <<>>
ExtractableToken ==
    token.type = "dict" /\ ("roles" \in token.keys => token.roles.type = "list")

\* C5 as stated: the extractor returns normally; every entry is split at its
\* first colon only; the list for a feature role F is, in token order and
\* with duplicates kept, the contexts of the entries whose name maps to F,
\* one context per entry; F is a key only if that list is not empty; a token
\* without a roles entry gives the empty map.
C5_AsStated ==
    (ExtractCalled /\ ExtractableToken) =>
        /\ extracted.exc = ""
        /\ DOMAIN extracted.value \subseteq FeatureRoleNames
        /\ \A F \in FeatureRoleNames :
             /\ F \in DOMAIN extracted.value <=> ContextsOncePerEntry(F, TokenEntries) # <<>>
             /\ F \in DOMAIN extracted.value =>
                    extracted.value[F] = ContextsOncePerEntry(F, TokenEntries)

\* C5 as amended: the same, except that an entry contributes its context
\* once for every occurrence of F in the list configured for its name.
C5_ClaimRoleExtractor ==
    (ExtractCalled /\ ExtractableToken) =>
        /\ extracted.exc = ""
        /\ DOMAIN extracted.value \subseteq FeatureRoleNames
        /\ \A F \in FeatureRoleNames :
             /\ F \in DOMAIN extracted.value <=> ContextsPerOccurrence(F, TokenEntries) # <<>>
             /\ F \in DOMAIN extracted.value =>
                    extracted.value[F] = ContextsPerOccurrence(F, TokenEntries)

\* two entries, one with a context that holds a colon and one without a
\* colon, were extracted into one feature role's list
C5_Witness ==
    /\ ExtractCalled /\ api = "jwt"
    /\ token.roles.items = <<Admin \o <<":", "x", ":", "y">>, Admin>>
    /\ extracted.exc = ""
    /\ \E F \in DOMAIN extracted.value :
         extracted.value[F] = <<<<"x", ":", "y">>, <<>>>>

----------------------------------------------------------------------------
(* Claim Builder *)

\* what one yielded pair contributes, as stated: the bare role string for an
\* empty or null context, 'role:context' for a string, and 'role:item' for
\* each item of a collection
ContributionAsStated(y) ==
    IF y.context.type = "NoneType" \/ y.context = Str(<<>>) \/ y.context = List(<<>>)
    THEN <<y.role_string>>
    ELSE IF y.context.type = "str"
         THEN <<y.role_string \o <<":">> \o y.context.str>>
         ELSE [i \in 1..Len(y.context.items) |->
                  y.role_string \o <<":">> \o y.context.items[i]]

\* the same, with the bare role string for an empty item of a collection
Contribution(y) ==
    IF y.context.type = "NoneType" \/ y.context = Str(<<>>) \/ y.context = List(<<>>)
    THEN <<y.role_string>>
    ELSE IF y.context.type = "str"
         THEN <<y.role_string \o <<":">> \o y.context.str>>
         ELSE [i \in 1..Len(y.context.items) |->
                  IF y.context.items[i] = <<>> THEN y.role_string
                  ELSE y.role_string \o <<":">> \o y.context.items[i]]

RECURSIVE ConcatAsStated(_)
ConcatAsStated(ys) ==
    IF ys = <<>> THEN <<>> ELSE ContributionAsStated(Head(ys)) \o ConcatAsStated(Tail(ys))

RECURSIVE Concat(_)
Concat(ys) == IF ys = <<>> THEN <<>> ELSE Contribution(Head(ys)) \o Concat(Tail(ys))

InLocatorOrder == \A i, j \in 1..Len(yielded) : i < j => yielded[i].loc <= yielded[j].loc

\* C6 as stated: the pairs are taken in locator configuration order, and the
\* list built, and returned, is the concatenation in yield order of what each
\* pair contributes: the bare role string for an empty or null context,
\* 'role:context' for a string, and one 'role:item' per item of a
\* collection, empty items included.
C6_AsStated ==
    api = "claim" =>
        /\ InLocatorOrder
        /\ role_auth_claim = ConcatAsStated(yielded)
        /\ pc = "returned" => build_call = Return(ConcatAsStated(yielded))

\* C6 as amended: the same, except that an empty item of a collection
\* contributes the bare role string.
C6_ClaimBuilder ==
    api = "claim" =>
        /\ InLocatorOrder
        /\ role_auth_claim = Concat(yielded)
        /\ pc = "returned" => build_call = Return(Concat(yielded))

\* a build over two sources returned after a collection of two contexts was yielded
C6_Witness ==
    /\ api = "claim" /\ pc = "returned" /\ loc_idx = 2
    /\ Len(yielded) = 2
    /\ yielded[1].loc = 1 /\ yielded[2].loc = 2
    /\ yielded[2].context = List(<<<<"x">>, <<"*">>>>)
    /\ Len(build_call.value) = 3

----------------------------------------------------------------------------
(* Round trip *)

\* the builder's list has been embedded into a token and extracted again
Embedded == api = "claim" /\ token.type = "dict"

ColonFreeRoles ==
    \A i \in 1..Len(yielded) : \A k \in 1..Len(yielded[i].role_string) :
        yielded[i].role_string[k] # ":"

\* the contexts a yielded context advertises; no context is the empty context
AdvertisedContexts(c) ==
    IF c.type = "NoneType" \/ c = Str(<<>>) \/ c = List(<<>>) THEN {<<>>}
    ELSE IF c.type = "str" THEN {c.str}
    ELSE {c.items[i] : i \in 1..Len(c.items)}

\* the contexts the sources advertised for the system roles configured to map to F
Advertised(F) ==
    UNION { AdvertisedContexts(yielded[i].context) :
              i \in {j \in 1..Len(yielded) :
                        \E k \in 1..Len(Configured(yielded[j].role_string)) :
                            Configured(yielded[j].role_string)[k] = F} }

ExtractedContexts(F) ==
    IF F \in DOMAIN extracted.value
    THEN {extracted.value[F][i] : i \in 1..Len(extracted.value[F])}
    ELSE {}

\* C7: when the role strings the sources yield hold no colon, extracting a
\* token whose roles are the builder's output gives, for every feature role
\* F, exactly the contexts the sources advertised for the system roles
\* configured to map to F, contexts that hold colons included.
C7_RoundTrip ==
    (Embedded /\ ColonFreeRoles) =>
        /\ extracted.exc = ""
        /\ DOMAIN extracted.value \subseteq FeatureRoleNames
        /\ \A F \in FeatureRoleNames : ExtractedContexts(F) = Advertised(F)

\* a context holding a colon went through the builder and the extractor,
\* next to a role mapped to other feature roles
C7_Witness ==
    /\ Embedded /\ ColonFreeRoles
    /\ Len(yielded) = 2
    /\ yielded[1].role_string = Admin /\ yielded[1].context = Str(<<"x", ":", "y">>)
    /\ yielded[2].role_string = Manager /\ yielded[2].context = List(<<<<"x">>, <<"*">>>>)
    /\ ExtractedContexts(DataApiAccess) = {<<"x", ":", "y">>}
    /\ ExtractedContexts(CouponManagement) = {<<"x", ":", "y">>, <<"x">>, <<"*">>}

----------------------------------------------------------------------------
(* Locator resolution *)

Locators == settings.SYSTEM_WIDE_ROLE_CLASSES
ResolvesToNeither(l) == l.import # "ok" /\ l.get_model # "ok"

\* C8: a locator that resolves as a callable is used as the callable, also
\* when it would resolve as an entity type; one that does not is used through
\* the entity type's assignment listing; one that resolves to neither ends
\* the build with the resolution failure raised and no list returned,
\* whatever earlier locators yielded; a build returns a list only when every
\* locator resolved.
C8_LocatorResolution ==
    api = "claim" =>
        /\ pc = "iterate" =>
             /\ Locators[loc_idx].import = "ok" => role_func = "function"
             /\ Locators[loc_idx].import # "ok" =>
                    /\ Locators[loc_idx].get_model = "ok"
                    /\ role_func = "get_assignments"
        /\ \A i \in 1..Len(yielded) :
             yielded[i].source =
                 (IF Locators[yielded[i].loc].import = "ok" THEN "function" ELSE "get_assignments")
        /\ (\E n \in 1..loc_idx : ResolvesToNeither(Locators[n])) =>
             /\ pc = "raised"
             /\ build_call = Raise("LookupError")
             /\ ResolvesToNeither(Locators[loc_idx])
        /\ pc = "raised" => ResolvesToNeither(Locators[loc_idx])
        /\ build_call.exc = "" =>
             /\ pc = "returned"
             /\ \A n \in 1..Len(Locators) : ~ResolvesToNeither(Locators[n])

\* the build failed at a locator that is neither, after an earlier locator had yielded
C8_Witness ==
    /\ api = "claim" /\ pc = "raised"
    /\ build_call = Raise("LookupError")
    /\ loc_idx = 2
    /\ Len(yielded) > 0

----------------------------------------------------------------------------
(* The two evaluators *)

\* the contexts the token gives the role of the last claims-path call
CallContexts ==
    {TokenMap[jwt_call.role_name][i] : i \in 1..Len(TokenMap[jwt_call.role_name])}

\* assignments of a user for the role of the last claims-path call whose
\* contexts are taken from the token's: each as a string, and all as one collection
RowsLike(name) ==
    {Assignment(name, jwt_call.role_name, Str(s)) : s \in CallContexts}
    \cup {Assignment(name, jwt_call.role_name, List(TokenMap[jwt_call.role_name]))}

UnionOfContexts(rows) == UNION {AdvertisedRow(a) : a \in rows}

\* assignments that do not match the user and role asked for
OtherRows(name) ==
    {Assignment("anon", jwt_call.role_name, Str(ALL_ACCESS_CONTEXT))}
    \cup {Assignment(name, F, Str(ALL_ACCESS_CONTEXT)) :
            F \in FeatureRoleNames \ {jwt_call.role_name}}

\* C9: the result of a claims-path call for a role that the token gives the
\* contexts S is the result of the persistence path for the same role and
\* requested context, for every non-anonymous user and every store whose
\* assignments matching that user and role have contexts whose union is S.
C9_SamePolicy ==
    (JwtCalled /\ WellFormedToken /\ jwt_call.role_name \in DOMAIN TokenMap) =>
        \A u \in {v \in Users : NonAnonymous(v)} :
            \A rows \in SUBSET RowsLike(u.name) :
                (rows # {} /\ UnionOfContexts(rows) = CallContexts) =>
                    \A others \in {{}, OtherRows(u.name)} :
                        user_has_access_via_database(u, jwt_call.role_name,
                                                     rows \cup others, jwt_call.context)
                            = jwt_call.ret

\* a claims-path call was granted through the wildcard
C9_Witness ==
    /\ JwtCalled /\ WellFormedToken
    /\ jwt_call.role_name \in DOMAIN TokenMap
    /\ CallContexts = {<<"x">>, ALL_ACCESS_CONTEXT}
    /\ jwt_call.context = Str(<<"y">>)
    /\ Granted(jwt_call)

----------------------------------------------------------------------------
(* Monotonicity *)

IsGrant(ret) == ret.exc = "" /\ ret.value = TRUE

\* every grant of the claims path for the given token
JwtGrants(decoded_jwt) ==
    {q \in FeatureRoleNames \X RequestContexts :
        IsGrant(request_user_has_implicit_access_via_jwt(decoded_jwt, q[1], q[2]))}

\* every grant of the persistence path for the given store
DbGrants(rows) ==
    {q \in {v \in Users : NonAnonymous(v)} \X FeatureRoleNames \X RequestContexts :
        IsGrant(user_has_access_via_database(q[1], q[2], rows, q[3]))}

\* the step appends entries to the roles of the token
EntriesAppended ==
    /\ token.type = "dict" /\ "roles" \in token.keys /\ token.roles.type = "list"
    /\ token'.type = "dict" /\ token'.keys = token.keys /\ token'.roles.type = "list"
    /\ Len(token'.roles.items) > Len(token.roles.items)
    /\ SubSeq(token'.roles.items, 1, Len(token.roles.items)) = token.roles.items

\* C10: a step that appends entries to the token's roles loses no
\* claims-path grant; a step that adds assignments holding a string or a
\* collection loses no persistence-path grant; and in both paths a grant for
\* a context comes with the grant for the same role and no context.
C10_GrantsAreMonotone ==
    [][ /\ EntriesAppended =>
             /\ JwtGrants(token) \subseteq JwtGrants(token')
             /\ \A q \in JwtGrants(token') : <<q[1], None>> \in JwtGrants(token')
        /\ (store' # store /\ store \subseteq store' /\ StringOrCollection(store' \ store)) =>
             /\ DbGrants(store) \subseteq DbGrants(store')
             /\ \A q \in DbGrants(store') : <<q[1], q[2], None>> \in DbGrants(store')
      ]_vars

\* a second entry was appended to a token that already granted a context
C10_Witness ==
    /\ api = "jwt"
    /\ token.type = "dict" /\ "roles" \in token.keys /\ token.roles.type = "list"
    /\ Len(token.roles.items) = 2
    /\ <<CouponManagement, Str(<<"x">>)>>
           \in JwtGrants(Dict({"roles"}, List(<<token.roles.items[1]>>)))
    /\ token.roles.items[2] = Admin \o <<":", "x", ":", "y">>
    /\ <<CouponManagement, Str(<<"x">>)>> \in JwtGrants(token)

====
